---- MODULE Spec2Model ----
(***************************************************************************)
(* Credential resolution and OAuth token lifecycle of the EDON gateway     *)
(* connectors (FMP, Gemini, NewsAPI, Polygon, Home Assistant).             *)
(*                                                                         *)
(* Python values are represented as follows.                               *)
(*   str            a sequence of one-character strings, "" is << >>       *)
(*   Optional[str]  a str, or None (a one-element sequence no str equals)  *)
(*   Optional[int]  a natural number, or NoneInt                           *)
(*   dict           a function whose DOMAIN is the set of keys             *)
(***************************************************************************)
EXTENDS Integers, Sequences, FiniteSets, TLC

VARIABLES strict, env, store, now, tool, conn, call, ret, posts, saves, calls

VARIABLES demo_mode, api_keys, next_id, pending, response

connector == <<strict, env, store, now, tool, conn, call, ret, posts, saves, calls>>

gateway == <<demo_mode, api_keys, next_id, pending, response>>

vars == <<connector, gateway>>

----------------------------------------------------------------------------
(* Bounds of the model. *)

NCallers == 2
MaxCalls == 2
MaxNow == 1
MaxKeys == 3
NHandlers == 2

----------------------------------------------------------------------------
(* Python values. *)

None == <<"None">>
NoneInt == -1
EmptyDict == [k \in {} |-> << >>]

Truthy(v) == v # None /\ v # << >>
TruthyInt(n) == n # NoneInt /\ n # 0
Or(a, b) == IF Truthy(a) THEN a ELSE b
Get(d, k) == IF k \in DOMAIN d THEN d[k] ELSE None
GetInt(d, k) == IF k \in DOMAIN d THEN d[k] ELSE NoneInt

RECURSIVE LStrip(_)
LStrip(s) == IF s = << >> THEN s
             ELSE IF Head(s) = " " THEN LStrip(Tail(s)) ELSE s

RECURSIVE RStripCh(_, _)
RStripCh(s, ch) == IF s = << >> THEN s
                   ELSE IF s[Len(s)] = ch THEN RStripCh(SubSeq(s, 1, Len(s) - 1), ch)
                   ELSE s

Strip(s) == RStripCh(LStrip(s), " ")

----------------------------------------------------------------------------
(* The connector classes. *)

FMP == "fmp"
GEMINI == "gemini"
NEWSAPI == "newsapi"
POLYGON == "polygon"
HOME_ASSISTANT == "home_assistant"

ApiKeyTools == {FMP, GEMINI, NEWSAPI, POLYGON}
Tools == ApiKeyTools \cup {HOME_ASSISTANT}

(* The environment variables a connector class reads, in priority order. *)
EnvNames(t) == CASE t = FMP -> <<"FMP_API_KEY">>
                 [] t = GEMINI -> <<"GEMINI_API_KEY", "GOOGLE_API_KEY">>
                 [] t = NEWSAPI -> <<"NEWSAPI_KEY">>
                 [] t = POLYGON -> <<"POLYGON_API_KEY">>
                 [] t = HOME_ASSISTANT -> <<"HOME_ASSISTANT_BASE_URL", "HOME_ASSISTANT_TOKEN">>

GetEnv(name) == Get(env, name)

(* The credential store: get_credential answers a record or nothing. *)
NoCred == [exists |-> FALSE, credential_data |-> EmptyDict]
Cred(data) == [exists |-> TRUE, credential_data |-> data]

TenantIds == {None, <<"T">>}

StoreKey(cid, t, ten) == <<cid, t, ten>>
GetCredential(cid, t, ten) == store[StoreKey(cid, t, ten)]

----------------------------------------------------------------------------
(* A connector object.  NewConnector is the object as __init__ leaves it   *)
(* before it calls _load_credentials; phase tells whether the constructor  *)
(* returned ("ok") or raised ("raised"), reads counts the get_credential   *)
(* calls the object has made.                                              *)

NewConnector(cid, ten) ==
    [phase |-> "init", credential_id |-> cid, tenant_id |-> ten, reads |-> 0,
     api_key |-> None, configured |-> FALSE,
     base_url |-> None, token |-> None, access_token |-> None,
     refresh_token |-> None, client_id |-> None, client_secret |-> None,
     token_url |-> None, expires_at |-> NoneInt]

NoConnector == [NewConnector(None, None) EXCEPT !.phase = "none"]

(* os.getenv(A) or os.getenv(B) ... : the first truthy variable, else the last. *)
RECURSIVE EnvOr(_)
EnvOr(names) == IF Len(names) = 1 THEN GetEnv(names[1])
                ELSE Or(GetEnv(names[1]), EnvOr(Tail(names)))

(* _load_credentials of the four API-key connectors. *)
ApiKeyLoadCredentials(t, c) ==
    LET cred == GetCredential(c.credential_id, t, c.tenant_id)
        data == cred.credential_data
        fromStore == Strip(Or(Or(Get(data, "api_key"), Get(data, "key")), << >>))
        looked == cred.exists /\ DOMAIN data # {}
        c0 == [c EXCEPT !.reads = c.reads + 1]
        c1 == IF looked THEN [c0 EXCEPT !.api_key = fromStore] ELSE c0
        fromEnv == Strip(Or(EnvOr(EnvNames(t)), << >>))
    IN  IF looked /\ fromStore # << >>
        THEN [c1 EXCEPT !.configured = TRUE, !.phase = "ok"]
        ELSE IF strict
        THEN [c1 EXCEPT !.phase = "raised"]
        ELSE [c1 EXCEPT !.api_key = fromEnv, !.configured = (fromEnv # << >>),
                        !.phase = "ok"]

FmpLoadCredentials(c) == ApiKeyLoadCredentials(FMP, c)
GeminiLoadCredentials(c) == ApiKeyLoadCredentials(GEMINI, c)
NewsApiLoadCredentials(c) == ApiKeyLoadCredentials(NEWSAPI, c)
PolygonLoadCredentials(c) == ApiKeyLoadCredentials(POLYGON, c)

(* HomeAssistantConnector._load_credentials. *)
StrField(data, k) == Strip(Or(Get(data, k), << >>))

HomeAssistantLoadCredentials(c) ==
    LET cred == GetCredential(c.credential_id, HOME_ASSISTANT, c.tenant_id)
        data == cred.credential_data
        base0 == StrField(data, "base_url")
        base == IF base0 # << >> THEN RStripCh(base0, "/") ELSE base0
        tok == StrField(data, "token")
        acc == StrField(data, "access_token")
        ref == StrField(data, "refresh_token")
        envBase == RStripCh(Strip(Or(GetEnv("HOME_ASSISTANT_BASE_URL"), << >>)), "/")
        envTok == Strip(Or(GetEnv("HOME_ASSISTANT_TOKEN"), << >>))
        c0 == [c EXCEPT !.reads = c.reads + 1]
    IN  IF cred.exists /\ DOMAIN data # {}
        THEN [c0 EXCEPT !.base_url = base, !.token = tok, !.access_token = acc,
                       !.refresh_token = ref,
                       !.client_id = StrField(data, "client_id"),
                       !.client_secret = StrField(data, "client_secret"),
                       !.token_url = StrField(data, "token_url"),
                       !.expires_at = GetInt(data, "expires_at"),
                       !.configured = (base # << >> /\ (tok # << >> \/ acc # << >> \/ ref # << >>)),
                       !.phase = "ok"]
        ELSE IF strict
        THEN [c0 EXCEPT !.phase = "raised"]
        ELSE [c0 EXCEPT !.base_url = envBase, !.token = envTok,
                       !.configured = (envBase # << >> /\ envTok # << >>),
                       !.phase = "ok"]

LoadCredentials(t, c) ==
    CASE t = FMP -> FmpLoadCredentials(c)
      [] t = GEMINI -> GeminiLoadCredentials(c)
      [] t = NEWSAPI -> NewsApiLoadCredentials(c)
      [] t = POLYGON -> PolygonLoadCredentials(c)
      [] t = HOME_ASSISTANT -> HomeAssistantLoadCredentials(c)

----------------------------------------------------------------------------
(* The inputs: store records, environments, token-endpoint responses.      *)
(* Values written by an operator to the store use the letters s k h t a r, *)
(* values of the environment use e g, values of the token endpoint n q.    *)

MkDict(f) == [k \in {x \in DOMAIN f : f[x] # None} |-> f[k]]

ApiKeyDicts ==
    {MkDict([api_key |-> a, key |-> k]) :
        a \in {None, <<" ">>, <<" ", "s", " ">>}, k \in {None, <<"k">>}}

(* Home Assistant records for the resolution runs: every combination of   *)
(* base_url and the three secrets, with an expiry inside the margin.       *)
HomeAssistantDicts ==
    [base_url : {<< >>, <<" ", "h", "/">>},
     token : {<< >>, <<"t">>},
     access_token : {<< >>, <<" ", "a">>},
     refresh_token : {<< >>, <<"r">>},
     client_id : {<<"c">>},
     client_secret : {<< >>},
     token_url : {<< >>},
     expires_at : {30}]

(* Home Assistant records for the token-lifecycle runs: every combination *)
(* of base_url, the three secrets and the expiry, two OAuth2 records that  *)
(* name their token_url, and two records whose expiry passes during a run. *)
TokenDicts ==
    [base_url : {<< >>, <<"h">>},
     token : {<< >>, <<"t">>},
     access_token : {<< >>, <<"a">>},
     refresh_token : {<< >>, <<"r">>},
     client_id : {<<"c">>},
     client_secret : {<<"x">>},
     token_url : {<< >>},
     expires_at : {NoneInt, 0, 61}]
    \cup
    [base_url : {<< >>, <<"h">>},
     token : {<< >>},
     access_token : {<<"a">>},
     refresh_token : {<<"r">>},
     client_id : {<<"c">>},
     client_secret : {<<"x">>},
     token_url : {<<"u">>},
     expires_at : {61}]
    \cup
    [base_url : {<<"h">>},
     token : {<< >>},
     access_token : {<<"a">>},
     refresh_token : {<< >>, <<"r">>},
     client_id : {<<"c">>},
     client_secret : {<<"x">>},
     token_url : {<< >>},
     expires_at : {1}]

StoreRecords(t) ==
    {NoCred} \cup {Cred(d) : d \in IF t = HOME_ASSISTANT
                                   THEN HomeAssistantDicts \cup {EmptyDict}
                                   ELSE ApiKeyDicts}

Environments(t) ==
    CASE t = GEMINI ->
            {MkDict([GEMINI_API_KEY |-> a, GOOGLE_API_KEY |-> b]) :
                a \in {None, <<" ">>, <<" ", "e">>}, b \in {None, <<"g">>}}
      [] t = HOME_ASSISTANT ->
            {MkDict([HOME_ASSISTANT_BASE_URL |-> a, HOME_ASSISTANT_TOKEN |-> b]) :
                a \in {None, <<"e", "/">>}, b \in {None, <<" ">>, <<"e", " ">>}}
      [] OTHER ->
            {MkDict([n \in {EnvNames(t)[1]} |-> a]) : a \in {None, <<" ">>, <<" ", "e">>}}

StoreKeys(t) == {StoreKey(t, t, ten) : ten \in TenantIds}

(* What the token endpoint can answer: no answer at all (a network failure *)
(* or a timeout, status 0), a non-200 status, or 200 with a JSON body.     *)
(* expires_in is a number, or NotAnInt for a value int() rejects.          *)
NotAnInt == -2

BodyOf(ks, a, r, e) ==
    [k \in ks |-> CASE k = "access_token" -> a
                    [] k = "refresh_token" -> r
                    [] k = "expires_in" -> e]

Bodies ==
    {BodyOf(ks, a, r, e) :
        ks \in SUBSET {"access_token", "refresh_token", "expires_in"},
        a \in {<< >>, <<" ", "n">>}, r \in {<<"q">>}, e \in {0, 90, NotAnInt}}

TokenResponses ==
    {[status |-> 0, body |-> EmptyDict], [status |-> 500, body |-> EmptyDict]}
        \cup {[status |-> 200, body |-> b] : b \in Bodies}

----------------------------------------------------------------------------
(* Callers.  A caller is a thread of the host that invokes an operation of *)
(* the connector object; pc is where it stands in the operation.  Once the *)
(* checks of an operation have passed, the operations of a class go on in  *)
(* the same way, so a call records only its kind: "_auth_header" for a     *)
(* direct call of that method, "operation" for a business operation.       *)
(* ret is what the call that ended last gave its caller: the header of     *)
(* _auth_header or the envelope of an operation, or an exception (raised), *)
(* with what the call did on the way: how its token refresh ended, how     *)
(* many business requests it sent and the header it sent them with.        *)

Callers == 1..NCallers

EXPIRY_MARGIN == 60

IdleCall == [pc |-> "idle", kind |-> "none", header |-> EmptyDict, refresh |-> "none"]

NoReturn == [kind |-> "none", raised |-> FALSE, header |-> EmptyDict,
             success |-> FALSE, error |-> "", refresh |-> "none", requests |-> 0]

(* The operations of a connector class and the argument each requires. *)
Operations(t) ==
    CASE t = FMP -> {"quote", "stock_news"}
      [] t = GEMINI -> {"generate_image", "text_to_speech"}
      [] t = NEWSAPI -> {"search", "top_headlines"}
      [] t = POLYGON -> {"prev_close", "ticker_details"}
      [] t = HOME_ASSISTANT -> {"list_entities", "get_state", "call_service", "_auth_header"}

RequiredArg(op) ==
    CASE op = "quote" -> "symbol"
      [] op = "stock_news" -> "tickers"
      [] op = "generate_image" -> "prompt"
      [] op = "text_to_speech" -> "text"
      [] op = "search" -> "q"
      [] op = "prev_close" -> "ticker"
      [] op = "ticker_details" -> "ticker"
      [] op = "get_state" -> "entity_id"
      [] op = "call_service" -> "domain"
      [] OTHER -> ""

Arguments == {None, << >>, <<" ">>, <<"x">>}

BlankWithoutStrip(arg) == Or(arg, << >>) = << >>

(* not (arg or "").strip() *)
Blank(arg) == Strip(Or(arg, << >>)) = << >>

(* HomeAssistantConnector._validate_configured: the error, "" for None. *)
ValidateConfigured(c) ==
    IF ~Truthy(c.base_url) THEN "Home Assistant base_url missing"
    ELSE IF ~(Truthy(c.token) \/ Truthy(c.access_token) \/ Truthy(c.refresh_token))
    THEN "Home Assistant token missing"
    ELSE ""

NeedsRefreshOffByOne(c, t) ==
    /\ TruthyInt(c.expires_at)
    /\ Truthy(c.access_token)
    /\ t >= c.expires_at - (EXPIRY_MARGIN + 1)

(* The test of _auth_header that decides whether to call the refresh routine. *)
NeedsRefresh(c, t) ==
    /\ TruthyInt(c.expires_at)
    /\ Truthy(c.access_token)
    /\ t >= c.expires_at - EXPIRY_MARGIN

RefreshPostsWithoutToken(c) == Truthy(c.token_url) \/ Truthy(c.base_url)

(* The early returns of _refresh_access_token: does it reach requests.post? *)
RefreshPosts(c) ==
    /\ Truthy(c.refresh_token)
    /\ (Truthy(c.token_url) \/ Truthy(c.base_url))

DefaultTokenUrl(c) == IF Truthy(c.token_url) THEN c.token_url
                      ELSE c.base_url \o <<"/auth/token">>

AuthHeaderPrefersAccessToken(c) ==
    LET token == Or(c.access_token, c.token)
    IN  IF ~Truthy(token) THEN EmptyDict
        ELSE [k \in {"Authorization"} |-> <<"Bearer ">> \o token]

(* The dict _auth_header returns. *)
AuthHeader(c) ==
    LET token == Or(c.token, c.access_token)
    IN  IF ~Truthy(token) THEN EmptyDict
        ELSE [k \in {"Authorization"} |-> <<"Bearer ">> \o token]

(* The credential_data _save_tokens writes. *)
SavedData(c) ==
    [base_url |-> Or(c.base_url, << >>),
     token |-> Or(c.token, << >>),
     access_token |-> Or(c.access_token, << >>),
     refresh_token |-> Or(c.refresh_token, << >>),
     client_id |-> Or(c.client_id, << >>),
     client_secret |-> Or(c.client_secret, << >>),
     token_url |-> Or(c.token_url, << >>),
     expires_at |-> c.expires_at]

(* _save_tokens: whether it writes, and the store after it. *)
SaveWrites(c) == Truthy(c.tenant_id)

SaveTokensNoTenant(c, st) ==
    IF ~SaveWrites(c) THEN st
    ELSE [st EXCEPT ![StoreKey(c.credential_id, HOME_ASSISTANT, None)] =
                        Cred(SavedData(c))]

SaveTokens(c, st) ==
    IF ~SaveWrites(c) THEN st
    ELSE [st EXCEPT ![StoreKey(c.credential_id, HOME_ASSISTANT, c.tenant_id)] =
                        Cred(SavedData(c))]

(* The try block of _refresh_access_token from the answer on: the object   *)
(* after a 200 answer with JSON body b, received at time t.                *)
ExpiresIn(b) == LET v == GetInt(b, "expires_in") IN IF TruthyInt(v) THEN v ELSE 0

RefreshRaises(b) == GetInt(b, "expires_in") = NotAnInt

ApplyRefresh(c, b, t) ==
    LET access_token == StrField(b, "access_token")
        refresh_token == StrField(b, "refresh_token")
        expires_in == ExpiresIn(b)
        c1 == IF access_token # << >> THEN [c EXCEPT !.access_token = access_token] ELSE c
        c2 == IF refresh_token # << >> THEN [c1 EXCEPT !.refresh_token = refresh_token] ELSE c1
    IN  IF expires_in # 0 THEN [c2 EXCEPT !.expires_at = t + expires_in] ELSE c2


RefreshEffectIgnoresStatus(c, resp, t) ==
    IF RefreshRaises(resp.body)
    THEN [conn |-> c, save |-> FALSE, raised |-> TRUE, outcome |-> "raised"]
    ELSE [conn |-> ApplyRefresh(c, resp.body, t), save |-> TRUE, raised |-> FALSE,
          outcome |-> "ok"]

RefreshEffectSavesOnFailure(c, resp, t) ==
    IF resp.status # 200
    THEN [conn |-> c, save |-> TRUE, raised |-> FALSE, outcome |-> "failed"]
    ELSE IF RefreshRaises(resp.body)
    THEN [conn |-> c, save |-> FALSE, raised |-> TRUE, outcome |-> "raised"]
    ELSE [conn |-> ApplyRefresh(c, resp.body, t), save |-> TRUE, raised |-> FALSE,
          outcome |-> "ok"]

(* _refresh_access_token from the answer of requests.post on: the object   *)
(* afterwards, whether _save_tokens is called, whether an exception leaves *)
(* the routine, and how the refresh ended.                                 *)
RefreshEffect(c, resp, t) ==
    IF resp.status # 200
    THEN [conn |-> c, save |-> FALSE, raised |-> FALSE, outcome |-> "failed"]
    ELSE IF RefreshRaises(resp.body)
    THEN [conn |-> c, save |-> FALSE, raised |-> TRUE, outcome |-> "raised"]
    ELSE [conn |-> ApplyRefresh(c, resp.body, t), save |-> TRUE, raised |-> FALSE,
          outcome |-> "ok"]

----------------------------------------------------------------------------
(* The gateway's API keys (billing/bootstrap.py).  A request carries the   *)
(* tenant the authentication middleware put in request.state, None or ""   *)
(* when there is none.  The table of keys lives in the database: a row is  *)
(* [id, tenant_id]; ids are given out in order and never reused.           *)

DEMO_TENANT_ID == <<"D">>

Tenants == {<<"A">>, <<"B">>}

Requests == [tenant_id : {None, << >>} \cup Tenants]

(* tenancy.get_request_tenant_id, and getattr(request.state, "tenant_id", None). *)
GetRequestTenantId(request) == request.tenant_id

(* str() of a non-negative int. *)
Digit(d) == CASE d = 0 -> "0" [] d = 1 -> "1" [] d = 2 -> "2" [] d = 3 -> "3"
              [] d = 4 -> "4" [] d = 5 -> "5" [] d = 6 -> "6" [] d = 7 -> "7"
              [] d = 8 -> "8" [] d = 9 -> "9"

RECURSIVE Str(_)
Str(n) == IF n < 10 THEN <<Digit(n)>> ELSE Str(n \div 10) \o <<Digit(n % 10)>>

(* The key_id of a DELETE /billing/api-keys/{key_id} request. *)
KeyIds == {Str(i) : i \in 0..MaxKeys}

Handlers == 1..NHandlers

(* db.list_api_keys(tenant_id): the rows of the tenant. *)
DbListApiKeys(keys, tenant_id) == {k \in keys : k.tenant_id = tenant_id}

(* db.create_api_key(tenant_id, name, key_hash): the table with the new row. *)
DbCreateApiKey(keys, id, tenant_id) == keys \cup {[id |-> id, tenant_id |-> tenant_id]}

(* db.delete_api_key(key_id, tenant_id): the table afterwards; the row with  *)
(* the id is removed, and scoped tells whether the statement also filters  *)
(* on the tenant.  It returns whether a row was removed.                   *)
DbDeleteApiKey(keys, key_id, tenant_id, scoped) ==
    {k \in keys : ~(Str(k.id) = key_id /\ (scoped => k.tenant_id = tenant_id))}

UnauthenticatedNever(tenant_id, demo) == FALSE

(* `if not tenant_id: if not config.DEMO_MODE: raise HTTPException(401)`. *)
Unauthenticated(tenant_id, demo) == ~Truthy(tenant_id) /\ ~demo

(* The tenant a handler works for once that check has passed. *)
EffectiveTenant(tenant_id) == IF Truthy(tenant_id) THEN tenant_id ELSE DEMO_TENANT_ID

KeyFoundAnyTenant(keys, tenant_id, key_id) == \E k \in keys : Str(k.id) = key_id

(* any(str(k.get("id")) == str(key_id) for k in db.list_api_keys(tenant_id)). *)
KeyFound(keys, tenant_id, key_id) ==
    \E k \in DbListApiKeys(keys, tenant_id) : Str(k.id) = key_id

(* A handler of delete_api_key between its two database calls, and the     *)
(* answer the gateway gave last: the status, the tenant it worked for, the *)
(* key id it names, the ids it lists and whether it called get_db().       *)
IdleHandler == [pc |-> "idle", tenant_id |-> None, key_id |-> None]

NoResponse == [op |-> "none", status |-> 0, tenant_id |-> None, key_id |-> None,
               keys |-> {}, db |-> FALSE]

NoGateway ==
    /\ demo_mode = FALSE
    /\ api_keys = {}
    /\ next_id = 1
    /\ pending = [h \in Handlers |-> IdleHandler]
    /\ response = NoResponse

----------------------------------------------------------------------------
(* The state machine. *)

Key(ten) == StoreKey(tool, tool, ten)

Zero ==
    /\ now = 0
    /\ conn = NoConnector
    /\ call = [c \in Callers |-> IdleCall]
    /\ ret = NoReturn
    /\ posts = 0
    /\ saves = 0
    /\ calls = 0

OneRecord(ten, r) == [k \in StoreKeys(tool) |-> IF k = Key(ten) THEN r ELSE NoCred]

(* Token lifecycle: a permissive process with an empty environment and a   *)
(* Home Assistant record for one tenant.                                   *)
Init ==
    /\ tool = HOME_ASSISTANT
    /\ strict = FALSE
    /\ env = EmptyDict
    /\ \E ten \in TenantIds, d \in TokenDicts : store = OneRecord(ten, Cred(d))
    /\ Zero
    /\ NoGateway

(* Resolution: any connector class, either mode, any environment and any   *)
(* record for one tenant.                                                  *)
InitResolve ==
    /\ tool \in Tools
    /\ strict \in BOOLEAN
    /\ env \in Environments(tool)
    /\ \E ten \in TenantIds, r \in StoreRecords(tool) : store = OneRecord(ten, r)
    /\ Zero
    /\ NoGateway

Quiescent == \A c \in Callers : call[c].pc = "idle"

(* __init__ of the connector class under study, with the default           *)
(* credential_id (the tool name) and the given tenant.                     *)
Construct(ten) ==
    /\ Quiescent
    /\ conn' = LoadCredentials(tool, NewConnector(tool, ten))
    /\ ret' = NoReturn
    /\ UNCHANGED <<strict, env, store, now, tool, call, posts, saves, calls>>
    /\ UNCHANGED gateway

KindOf(op) == IF op = "_auth_header" THEN op ELSE "operation"

(* The envelope {"success": False, "error": err} of a check that failed. *)
Fail(op, err) == [NoReturn EXCEPT !.kind = KindOf(op), !.error = err]

ApiKeyPrecheckArgOnly(c, op, arg) ==
    IF RequiredArg(op) # "" /\ Blank(arg) THEN RequiredArg(op) \o " is required"
    ELSE ""

(* The checks an operation makes before any request: the error it returns, *)
(* or "" when it goes on.                                                  *)
ApiKeyPrecheck(c, op, arg) ==
    IF ~c.configured \/ ~Truthy(c.api_key) THEN "not configured"
    ELSE IF RequiredArg(op) # "" /\ Blank(arg) THEN RequiredArg(op) \o " is required"
    ELSE ""

HomeAssistantPrecheck(c, op, arg, arg2) ==
    IF op = "_auth_header" THEN ""
    ELSE IF ValidateConfigured(c) # "" THEN ValidateConfigured(c)
    ELSE IF RequiredArg(op) # "" /\ Blank(arg) THEN RequiredArg(op) \o " is required"
    ELSE IF op = "call_service" /\ Blank(arg2) THEN "service is required"
    ELSE ""

(* quote, stock_news, prev_close, ticker_details, search, top_headlines,   *)
(* generate_image, text_to_speech up to the business request.              *)
ApiKeyOperation(c, op, arg) ==
    LET err == ApiKeyPrecheck(conn, op, arg)
    IN  /\ IF err # ""
           THEN ret' = Fail(op, err) /\ call' = call
           ELSE /\ call' = [call EXCEPT ![c] = [IdleCall EXCEPT !.pc = "biz",
                                                               !.kind = KindOf(op)]]
                /\ ret' = ret
        /\ UNCHANGED <<conn, posts>>

AuthHeaderEnterGivesUp(c, op) ==
    /\ IF NeedsRefresh(conn, now) /\ RefreshPosts(conn) /\ ret.refresh # "failed"
       THEN /\ conn' = [conn EXCEPT !.token_url = DefaultTokenUrl(conn)]
            /\ posts' = posts + 1
            /\ call' = [call EXCEPT ![c] = [IdleCall EXCEPT !.pc = "post",
                                                           !.kind = KindOf(op),
                                                           !.refresh = "sent"]]
       ELSE /\ call' = [call EXCEPT ![c] = [IdleCall EXCEPT !.pc = "hdr",
                                                           !.kind = KindOf(op)]]
            /\ UNCHANGED <<conn, posts>>
    /\ ret' = ret

(* _auth_header up to the point where it returns or blocks in requests.post. *)
AuthHeaderEnter(c, op) ==
    /\ IF NeedsRefresh(conn, now) /\ RefreshPosts(conn)
       THEN /\ conn' = [conn EXCEPT !.token_url = DefaultTokenUrl(conn)]
            /\ posts' = posts + 1
            /\ call' = [call EXCEPT ![c] = [IdleCall EXCEPT !.pc = "post",
                                                           !.kind = KindOf(op),
                                                           !.refresh = "sent"]]
       ELSE /\ call' = [call EXCEPT ![c] = [IdleCall EXCEPT !.pc = "hdr",
                                                           !.kind = KindOf(op)]]
            /\ UNCHANGED <<conn, posts>>
    /\ ret' = ret

(* list_entities, get_state, call_service and a direct _auth_header call. *)
HomeAssistantOperation(c, op, arg, arg2) ==
    LET err == HomeAssistantPrecheck(conn, op, arg, arg2)
    IN  IF err # ""
        THEN /\ ret' = Fail(op, err)
             /\ UNCHANGED <<call, conn, posts>>
        ELSE AuthHeaderEnter(c, op)

(* A caller invokes an operation.  The threads of the host are            *)
(* interchangeable, so a new call is taken by the first thread that is     *)
(* free.                                                                   *)
Invoke(c, op, arg, arg2) ==
    /\ conn.phase = "ok"
    /\ call[c].pc = "idle"
    /\ \A d \in Callers : d < c => call[d].pc # "idle"
    /\ calls < MaxCalls
    /\ op \in Operations(tool)
    /\ calls' = calls + 1
    /\ IF tool \in ApiKeyTools
       THEN ApiKeyOperation(c, op, arg)
       ELSE HomeAssistantOperation(c, op, arg, arg2)
    /\ UNCHANGED <<strict, env, store, now, tool, saves>>
    /\ UNCHANGED gateway

(* The answer of the token endpoint reaches _refresh_access_token; an      *)
(* exception it does not catch ends the call.                              *)
RefreshResponse(c, resp) ==
    LET eff == RefreshEffect(conn, resp, now)
    IN  /\ call[c].pc = "post"
        /\ conn' = eff.conn
        /\ store' = IF eff.save THEN SaveTokens(eff.conn, store) ELSE store
        /\ saves' = IF eff.save /\ SaveWrites(eff.conn) THEN saves + 1 ELSE saves
        /\ IF eff.raised
           THEN /\ call' = [call EXCEPT ![c] = IdleCall]
                /\ ret' = [NoReturn EXCEPT !.kind = call[c].kind, !.raised = TRUE,
                                           !.refresh = eff.outcome]
           ELSE /\ call' = [call EXCEPT ![c].pc = "hdr", ![c].refresh = eff.outcome]
                /\ ret' = ret
        /\ UNCHANGED <<strict, env, now, tool, posts, calls>>
        /\ UNCHANGED gateway

(* _auth_header builds the header and returns; an operation then sends its *)
(* business request with it.                                               *)
AuthHeaderReturn(c) ==
    /\ call[c].pc = "hdr"
    /\ IF call[c].kind = "_auth_header"
       THEN /\ call' = [call EXCEPT ![c] = IdleCall]
            /\ ret' = [NoReturn EXCEPT !.kind = call[c].kind,
                                       !.header = AuthHeader(conn),
                                       !.refresh = call[c].refresh]
       ELSE /\ call' = [call EXCEPT ![c].pc = "biz", ![c].header = AuthHeader(conn)]
            /\ ret' = ret
    /\ UNCHANGED <<strict, env, store, now, tool, conn, posts, saves, calls>>
    /\ UNCHANGED gateway

(* The business request ends: a 2xx answer, or a RequestException (network *)
(* failure, timeout, raise_for_status on another status).                  *)
BusinessResponse(c, ok) ==
    /\ call[c].pc = "biz"
    /\ call' = [call EXCEPT ![c] = IdleCall]
    /\ ret' = [NoReturn EXCEPT !.kind = call[c].kind, !.header = call[c].header,
                               !.success = ok,
                               !.error = IF ok THEN "" ELSE "request failed",
                               !.refresh = call[c].refresh, !.requests = 1]
    /\ UNCHANGED <<strict, env, store, now, tool, conn, posts, saves, calls>>
    /\ UNCHANGED gateway

Tick ==
    /\ now < MaxNow
    /\ now' = now + 1
    /\ UNCHANGED <<strict, env, store, tool, conn, call, ret, posts, saves, calls>>
    /\ UNCHANGED gateway

(* The arguments an operation takes: its required argument, and the      *)
(* service of call_service.                                                *)
Args1(op) == IF RequiredArg(op) = "" THEN {None} ELSE Arguments

Args2(op) == IF op = "call_service" THEN Arguments ELSE {None}

Next ==
    \/ \E ten \in TenantIds : Construct(ten)
    \/ \E c \in Callers, op \in Operations(tool) :
          \E arg \in Args1(op), arg2 \in Args2(op) : Invoke(c, op, arg, arg2)
    \/ \E c \in Callers, resp \in TokenResponses : RefreshResponse(c, resp)
    \/ \E c \in Callers : AuthHeaderReturn(c)
    \/ \E c \in Callers, ok \in BOOLEAN : BusinessResponse(c, ok)
    \/ Tick

Spec == Init /\ [][Next]_vars

(* Resolution and first use: one caller makes one call on the connector. *)
NextResolve ==
    \/ \E ten \in TenantIds : Construct(ten)
    \/ \E op \in Operations(tool) :
          \E arg \in Args1(op), arg2 \in Args2(op) : calls = 0 /\ Invoke(1, op, arg, arg2)
    \/ \E resp \in TokenResponses : RefreshResponse(1, resp)
    \/ AuthHeaderReturn(1)
    \/ \E ok \in BOOLEAN : BusinessResponse(1, ok)

SpecResolve == InitResolve /\ [][NextResolve]_vars

----------------------------------------------------------------------------
(* The gateway's API-key endpoints.  A handler has no await between its    *)
(* database calls, but the gateway may run as several worker processes on  *)
(* one database, so the two database calls of delete_api_key are two steps. *)

InitKeys ==
    /\ tool = HOME_ASSISTANT
    /\ strict = FALSE
    /\ env = EmptyDict
    /\ store = OneRecord(None, NoCred)
    /\ Zero
    /\ demo_mode \in BOOLEAN
    /\ api_keys = {}
    /\ next_id = 1
    /\ pending = [h \in Handlers |-> IdleHandler]
    /\ response = NoResponse

(* POST /billing/api-keys *)
CreateApiKey(request) ==
    LET tenant_id == GetRequestTenantId(request)
    IN  /\ IF Unauthenticated(tenant_id, demo_mode)
           THEN /\ response' = [NoResponse EXCEPT !.op = "create", !.status = 401]
                /\ UNCHANGED <<api_keys, next_id>>
           ELSE /\ next_id <= MaxKeys
                /\ api_keys' = DbCreateApiKey(api_keys, next_id, EffectiveTenant(tenant_id))
                /\ next_id' = next_id + 1
                /\ response' = [NoResponse EXCEPT !.op = "create", !.status = 200,
                                                  !.tenant_id = EffectiveTenant(tenant_id),
                                                  !.key_id = Str(next_id),
                                                  !.db = TRUE]
        /\ UNCHANGED <<demo_mode, pending>>
        /\ UNCHANGED connector

(* DELETE /billing/api-keys/{key_id} up to its ownership check. *)
DeleteApiKey(h, request, key_id) ==
    LET tenant_id == GetRequestTenantId(request)
    IN  /\ pending[h].pc = "idle"
        /\ \A g \in Handlers : g < h => pending[g].pc # "idle"
        /\ IF Unauthenticated(tenant_id, demo_mode)
           THEN /\ response' = [NoResponse EXCEPT !.op = "delete", !.status = 401]
                /\ pending' = pending
           ELSE IF ~KeyFound(api_keys, EffectiveTenant(tenant_id), key_id)
           THEN /\ response' = [NoResponse EXCEPT !.op = "delete", !.status = 404,
                                                  !.tenant_id = EffectiveTenant(tenant_id),
                                                  !.key_id = key_id,
                                                  !.db = TRUE]
                /\ pending' = pending
           ELSE /\ pending' = [pending EXCEPT ![h] = [pc |-> "delete",
                                                      tenant_id |-> EffectiveTenant(tenant_id),
                                                      key_id |-> key_id]]
                /\ response' = response
        /\ UNCHANGED <<demo_mode, api_keys, next_id>>
        /\ UNCHANGED connector

(* delete_api_key from db.delete_api_key on. *)
DeleteApiKeyCommit(h, scoped) ==
    LET after == DbDeleteApiKey(api_keys, pending[h].key_id, pending[h].tenant_id, scoped)
        deleted == after # api_keys
    IN  /\ pending[h].pc = "delete"
        /\ api_keys' = after
        /\ response' = [NoResponse EXCEPT !.op = "delete",
                                          !.status = IF deleted THEN 200 ELSE 404,
                                          !.tenant_id = pending[h].tenant_id,
                                          !.key_id = pending[h].key_id,
                                          !.db = TRUE]
        /\ pending' = [pending EXCEPT ![h] = IdleHandler]
        /\ UNCHANGED <<demo_mode, next_id>>
        /\ UNCHANGED connector

(* GET /billing/api-keys *)
ListApiKeys(request) ==
    LET tenant_id == GetRequestTenantId(request)
    IN  /\ IF Unauthenticated(tenant_id, demo_mode)
           THEN response' = [NoResponse EXCEPT !.op = "list", !.status = 401]
           ELSE response' = [NoResponse EXCEPT
                                !.op = "list", !.status = 200,
                                !.tenant_id = EffectiveTenant(tenant_id),
                                !.keys = {k.id : k \in DbListApiKeys(api_keys,
                                                          EffectiveTenant(tenant_id))},
                                !.db = TRUE]
        /\ UNCHANGED <<demo_mode, api_keys, next_id, pending>>
        /\ UNCHANGED connector

NextKeys ==
    \/ \E request \in Requests : CreateApiKey(request)
    \/ \E h \in Handlers, request \in Requests, key_id \in KeyIds :
          DeleteApiKey(h, request, key_id)
    \/ \E h \in Handlers, scoped \in BOOLEAN : DeleteApiKeyCommit(h, scoped)
    \/ \E request \in Requests : ListApiKeys(request)

SpecKeys == InitKeys /\ [][NextKeys]_vars

(* Vocabulary of the properties. *)

(* Some caller starts an operation in this step (Invoke alone counts calls). *)
Starts == calls' = calls + 1

(* No request to the token endpoint is sent in this step. *)
NoPost == posts' = posts /\ \A c \in Callers : call'[c].pc = "post" => call[c].pc = "post"

(* The states of the token as the design names them. *)
Fresh(c, t) == c.expires_at = NoneInt \/ t < c.expires_at - 60
Stale(c, t) == c.expires_at # NoneInt /\ t >= c.expires_at - 60 /\ Truthy(c.refresh_token)

Bearer(token) == [k \in {"Authorization"} |-> <<"Bearer ">> \o token]

TokensUnchanged ==
    /\ conn'.access_token = conn.access_token
    /\ conn'.refresh_token = conn.refresh_token
    /\ conn'.expires_at = conn.expires_at

NoStoreWrite == store' = store /\ saves' = saves

ConnKey == StoreKey(conn.credential_id, tool, conn.tenant_id)

----------------------------------------------------------------------------
(* C1: concurrent callers of _auth_header on one Stale token cause one     *)
(* request to the token endpoint: no two callers are ever both waiting for *)
(* an answer of the token endpoint at the same time.                       *)
C1_OneRefreshInFlight ==
    \A c1 \in Callers, c2 \in Callers :
        (call[c1].pc = "post" /\ call[c2].pc = "post") => c1 = c2

(* C2: a 200 answer without an access_token (absent or empty) leaves       *)
(* access_token, refresh_token and expires_at as they were and writes      *)
(* nothing to the store.                                                   *)
C2_NoAccessTokenNoChange ==
    [][\A c \in Callers, resp \in TokenResponses :
          (/\ resp.status = 200
           /\ StrField(resp.body, "access_token") = << >>
           /\ RefreshResponse(c, resp))
          => (TokensUnchanged /\ NoStoreWrite)]_vars

(* C3: after a 200 answer with a non-empty access_token and a well-formed  *)
(* body, the store holds under the connector's key a record with the new   *)
(* access_token and with the answer's refresh_token if it has one and the  *)
(* previous refresh_token otherwise, whatever the connector's tenant.      *)
C3_SuccessPersists ==
    [][\A c \in Callers, resp \in TokenResponses :
          (/\ resp.status = 200
           /\ StrField(resp.body, "access_token") # << >>
           /\ ~RefreshRaises(resp.body)
           /\ RefreshResponse(c, resp))
          => LET rec == store'[ConnKey]
                 rotated == StrField(resp.body, "refresh_token")
             IN  /\ rec.exists
                 /\ Get(rec.credential_data, "access_token")
                        = StrField(resp.body, "access_token")
                 /\ Get(rec.credential_data, "refresh_token")
                        = IF rotated # << >> THEN rotated ELSE conn.refresh_token]_vars

(* C4: when the token request ends in a status other than 200 or in a      *)
(* network failure, the three token fields and the store are unchanged, no *)
(* exception leaves the refresh, and _auth_header then returns the Bearer  *)
(* header of the token the object already held.                            *)
C4_FailureKeepsToken ==
    [][\A c \in Callers :
          /\ \A resp \in TokenResponses :
                (resp.status # 200 /\ RefreshResponse(c, resp))
                => /\ TokensUnchanged
                   /\ NoStoreWrite
                   /\ conn'.token = conn.token
                   /\ call'[c].pc = "hdr"
                   /\ ret' = ret
                   /\ Truthy(Or(conn.token, conn.access_token))
          /\ (call[c].refresh = "failed" /\ AuthHeaderReturn(c))
                => IF call[c].kind = "_auth_header"
                   THEN /\ ~ret'.raised
                        /\ ret'.header = Bearer(Or(conn.token, conn.access_token))
                   ELSE /\ call'[c].pc = "biz"
                        /\ call'[c].header = Bearer(Or(conn.token, conn.access_token))]_vars

C4_Witness ==
    /\ ret.kind = "_auth_header"
    /\ ret.refresh = "failed"
    /\ ret.header = Bearer(<<"a">>)
    /\ saves = 0

(* C5: in the Fresh state an operation sends nothing to the token          *)
(* endpoint, writes nothing to the store, leaves the object unchanged, and *)
(* _auth_header returns the cached token; now = expires_at - 61 is Fresh.  *)
C5_FreshNoRefresh ==
    [][/\ (Fresh(conn, now) /\ Starts)
            => (NoPost /\ conn' = conn /\ NoStoreWrite)
       /\ \A c \in Callers :
            (call[c].refresh = "none" /\ AuthHeaderReturn(c))
            => LET cached == IF Truthy(Or(conn.token, conn.access_token))
                             THEN Bearer(Or(conn.token, conn.access_token))
                             ELSE EmptyDict
               IN  /\ NoPost /\ conn' = conn /\ NoStoreWrite
                   /\ IF call[c].kind = "_auth_header"
                      THEN ret'.header = cached /\ ret'.refresh = "none"
                      ELSE call'[c].header = cached]_vars

C5_Witness ==
    /\ ret.kind = "_auth_header"
    /\ ret.refresh = "none"
    /\ now = conn.expires_at - 61
    /\ Truthy(conn.refresh_token)
    /\ ret.header = Bearer(<<"a">>)
    /\ posts = 0

(* C6: whenever the expiry is within 60 seconds or past and a refresh      *)
(* token is present, a call of _auth_header sends a request to the token   *)
(* endpoint, whether or not access_token is set (stated here for a         *)
(* connector that has a base_url and a positive expires_at).               *)
C6_StaleAlwaysRefreshes ==
    [][\A c \in Callers :
          (/\ Stale(conn, now)
           /\ conn.expires_at > 0
           /\ Truthy(conn.base_url)
           /\ Starts
           /\ call[c].kind = "none"
           /\ call'[c].kind = "_auth_header")
          => (posts' = posts + 1 /\ call'[c].pc = "post")]_vars

----------------------------------------------------------------------------
(* Vocabulary of the resolution properties. *)

NonBlank(v) == Truthy(v) /\ Strip(v) # << >>

SecretFields(t) == IF t = HOME_ASSISTANT
                   THEN {"token", "access_token", "refresh_token"}
                   ELSE {"api_key", "key"}

(* A usable record: it exists and one of its secret fields is not blank. *)
Usable(t, cred) ==
    /\ cred.exists
    /\ \E f \in SecretFields(t) : NonBlank(Get(cred.credential_data, f))

(* The environment supplies a usable value: one of the key variables of an *)
(* API-key connector, or both variables of Home Assistant, are not blank.  *)
UsableEnv(t) ==
    IF t = HOME_ASSISTANT
    THEN NonBlank(GetEnv("HOME_ASSISTANT_BASE_URL")) /\ NonBlank(GetEnv("HOME_ASSISTANT_TOKEN"))
    ELSE \E i \in 1..Len(EnvNames(t)) : NonBlank(GetEnv(EnvNames(t)[i]))

NoEnvValue(t) == \A i \in 1..Len(EnvNames(t)) : ~NonBlank(GetEnv(EnvNames(t)[i]))

Unresolved ==
    ~strict /\ conn.phase # "none" /\ ~store[ConnKey].exists /\ NoEnvValue(tool)

(* C7: in Strict mode the constructor of each of the five connectors       *)
(* raises whenever the store holds no usable record for its key.           *)
C7_StrictRaises ==
    [][\A ten \in TenantIds :
          (strict /\ ~Usable(tool, store[Key(ten)]) /\ Construct(ten))
          => conn'.phase = "raised"]_vars

(* Every variable of the connector is unset or holds a non-blank value. *)
NoBlankEnv(t) ==
    \A i \in 1..Len(EnvNames(t)) :
        GetEnv(EnvNames(t)[i]) = None \/ NonBlank(GetEnv(EnvNames(t)[i]))

(* C8: in Permissive mode, when the store holds no usable record, the      *)
(* constructor returns a connector that is configured exactly when the     *)
(* environment supplies a usable value (stated here for environments in    *)
(* which no variable is set to a blank value).                             *)
C8_PermissiveFollowsEnv ==
    [][\A ten \in TenantIds :
          (/\ ~strict
           /\ NoBlankEnv(tool)
           /\ ~Usable(tool, store[Key(ten)])
           /\ Construct(ten))
          => (conn'.phase = "ok" /\ (conn'.configured <=> UsableEnv(tool)))]_vars

(* C9: in Permissive mode with no store record and no environment value    *)
(* the constructor returns an unconfigured connector, and every business   *)
(* operation called on it has returned success = false with an error and   *)
(* has sent no business request and no token request.                      *)
C9_UnconfiguredFailsLocally ==
    Unresolved
    => /\ conn.phase = "ok"
       /\ ~conn.configured
       /\ \A c \in Callers : call[c].kind # "operation"
       /\ ret.kind = "operation"
             => /\ ~ret.raised
                /\ ~ret.success
                /\ ret.error # ""
                /\ ret.requests = 0
                /\ ret.refresh = "none"

C9_Witness ==
    Unresolved /\ conn.phase = "ok" /\ ret.kind = "operation" /\ ~ret.success

(* C10: when the store holds a usable record the constructor returns a     *)
(* connector whose secret is the record's, whatever the environment holds  *)
(* (stated here for Permissive mode with a usable environment value).      *)
C10_StoreBeforeEnv ==
    [][\A ten \in TenantIds :
          (/\ ~strict
           /\ UsableEnv(tool)
           /\ Usable(tool, store[Key(ten)])
           /\ Construct(ten))
          => LET data == store[Key(ten)].credential_data
             IN  /\ conn'.phase = "ok"
                 /\ IF tool = HOME_ASSISTANT
                    THEN /\ conn'.token = Strip(Or(Get(data, "token"), << >>))
                         /\ conn'.access_token = Strip(Or(Get(data, "access_token"), << >>))
                         /\ conn'.refresh_token = Strip(Or(Get(data, "refresh_token"), << >>))
                    ELSE \E f \in SecretFields(tool) :
                            /\ NonBlank(Get(data, f))
                            /\ conn'.api_key = Strip(Get(data, f))]_vars

----------------------------------------------------------------------------
(* What a Home Assistant constructor for tenant ten resolves to when it    *)
(* reads the record rec and nothing else (Permissive, empty environment).  *)
FromRecordAlone(rec, c) ==
    LET data == rec.credential_data
    IN  IF rec.exists
        THEN /\ c.token = StrField(data, "token")
             /\ c.access_token = StrField(data, "access_token")
             /\ c.refresh_token = StrField(data, "refresh_token")
             /\ c.expires_at = GetInt(data, "expires_at")
        ELSE /\ ~c.configured
             /\ ~Truthy(c.token)
             /\ ~Truthy(c.access_token)
             /\ ~Truthy(c.refresh_token)

(* C12: tenant isolation: a constructor reads the record under the key of  *)
(* its own (credential_id, tool, tenant_id) and no other, and a step       *)
(* changes no record but the one under the key of the connector that made  *)
(* it, so no tenant's record is read or changed by another tenant's        *)
(* connector.                                                              *)
C12_TenantIsolation ==
    [][/\ \A ten \in TenantIds :
            Construct(ten)
            => /\ conn'.tenant_id = ten
               /\ conn'.credential_id = tool
               /\ FromRecordAlone(store[Key(ten)], conn')
       /\ \A k \in StoreKeys(tool) :
            store'[k] # store[k] => (k = ConnKey /\ conn'.tenant_id = conn.tenant_id)]_vars

(* A connector of tenant T has refreshed and saved its tokens, and a       *)
(* connector constructed afterwards for the other key found nothing.       *)
C12_Witness ==
    /\ saves > 0
    /\ store[Key(<<"T">>)].exists
    /\ store[Key(<<"T">>)].credential_data.access_token = <<"n">>
    /\ ~store[Key(None)].exists
    /\ conn.phase = "ok"
    /\ conn.tenant_id = None
    /\ ~conn.configured


----------------------------------------------------------------------------
(* C13: no business operation of a constructed connector lets an exception *)
(* escape: whatever the business endpoint and the token endpoint answer,   *)
(* a business operation that has ended has returned an envelope.           *)
C13_NoExceptionEscapes ==
    ret.kind = "operation" => ~ret.raised


----------------------------------------------------------------------------
(* An argument that is the empty string or consists of blanks only. *)
EmptyOrWhitespace(arg) == arg # None /\ \A i \in 1..Len(arg) : arg[i] = " "

(* The error the design requires for the first missing argument of a call. *)
RequiredError(op, arg) ==
    IF EmptyOrWhitespace(arg) THEN RequiredArg(op) \o " is required"
    ELSE "service is required"

(* C14: on a configured connector an operation called with an empty or     *)
(* whitespace-only required argument returns success = false with the      *)
(* "<argument> is required" error and sends no request: no business        *)
(* request, no token request, and nothing is changed.                      *)
C14_BlankArgumentFailsLocally ==
    [][\A c \in Callers, op \in Operations(tool), arg \in Arguments, arg2 \in Arguments :
          (/\ conn.configured
           /\ RequiredArg(op) # ""
           /\ \/ EmptyOrWhitespace(arg)
              \/ (op = "call_service" /\ NonBlank(arg) /\ EmptyOrWhitespace(arg2))
           /\ Invoke(c, op, arg, arg2))
          => /\ ret' = [NoReturn EXCEPT !.kind = "operation",
                                        !.error = RequiredError(op, arg)]
             /\ call' = call
             /\ NoPost
             /\ conn' = conn
             /\ NoStoreWrite]_vars

(* call_service was called with a domain and a whitespace-only service. *)
C14_Witness ==
    /\ conn.configured
    /\ ret.kind = "operation"
    /\ ~ret.success
    /\ ret.error = "service is required"
    /\ ret.requests = 0
    /\ posts = 0


----------------------------------------------------------------------------
(* The Unrefreshable state: the object holds no refresh_token. *)
Unrefreshable(c) == ~Truthy(c.refresh_token)

(* The header of the token the object holds, the empty dict when it holds  *)
(* neither a static token nor an access_token.                             *)
HeldHeader(c) ==
    IF Truthy(Or(c.token, c.access_token)) THEN Bearer(Or(c.token, c.access_token))
    ELSE EmptyDict

(* C15: without a refresh_token _auth_header sends no request to the token *)
(* endpoint and does not fail: for any expires_at, one that has passed     *)
(* included, it returns the Bearer header of the static or access token    *)
(* the object holds and leaves the object and the store unchanged.         *)
C15_UnrefreshableNeverPosts ==
    [][\A c \in Callers :
          /\ (/\ Unrefreshable(conn)
              /\ Starts
              /\ call[c].kind = "none"
              /\ call'[c].kind = "_auth_header")
             => /\ call'[c].pc = "hdr"
                /\ NoPost
                /\ conn' = conn
                /\ NoStoreWrite
          /\ (/\ Unrefreshable(conn)
              /\ call[c].kind = "_auth_header"
              /\ AuthHeaderReturn(c))
             => /\ ~ret'.raised
                /\ ret'.refresh = "none"
                /\ ret'.header = HeldHeader(conn)
                /\ conn' = conn
                /\ NoStoreWrite]_vars

(* _auth_header has returned the access token of an object without a      *)
(* refresh_token whose expiry has passed.                                  *)
C15_Witness ==
    /\ Unrefreshable(conn)
    /\ conn.expires_at > 0
    /\ now >= conn.expires_at
    /\ ret.kind = "_auth_header"
    /\ ret.header = Bearer(<<"a">>)
    /\ posts = 0


----------------------------------------------------------------------------
(* C16: no state is configured but unusable: a business request of a Home  *)
(* Assistant connector, which is sent only after _validate_configured has  *)
(* passed, carries a non-empty Authorization header.                       *)
C16_ConfiguredIsUsable ==
    \A c \in Callers :
        (tool = HOME_ASSISTANT /\ call[c].pc = "biz")
        => /\ "Authorization" \in DOMAIN call[c].header
           /\ call[c].header["Authorization"] # <<"Bearer ">>


----------------------------------------------------------------------------
(* C17: after a 200 answer that carries an access_token and an integer     *)
(* expires_in, the object holds the answer's access_token, the answer's    *)
(* refresh_token if it supplies one and the previous one otherwise, and    *)
(* expires_at = (time of the refresh) + expires_in.                        *)
C17_SuccessUpdatesState ==
    [][\A c \in Callers, resp \in TokenResponses :
          (/\ resp.status = 200
           /\ StrField(resp.body, "access_token") # << >>
           /\ "expires_in" \in DOMAIN resp.body
           /\ resp.body["expires_in"] # NotAnInt
           /\ RefreshResponse(c, resp))
          => /\ conn'.access_token = StrField(resp.body, "access_token")
             /\ conn'.refresh_token =
                    IF StrField(resp.body, "refresh_token") # << >>
                    THEN StrField(resp.body, "refresh_token")
                    ELSE conn.refresh_token
             /\ conn'.expires_at = now + resp.body["expires_in"]]_vars


----------------------------------------------------------------------------
(* Caller c sends a request to the token endpoint in this step. *)
SendsPost(c) == call'[c].pc = "post" /\ call[c].pc # "post"

(* C18: refresh failures are not retried within a call and there is no     *)
(* back-off and no give-up state: a call sends a token request only as its *)
(* first step, one at most, and when the call that ended last had its      *)
(* refresh fail and the token is still Stale, the next call of             *)
(* _auth_header sends exactly one further request.                         *)
C18_OneRequestPerCall ==
    [][/\ \A c \in Callers :
            SendsPost(c) => (call[c].pc = "idle" /\ Starts /\ posts' = posts + 1)
       /\ posts' # posts => (posts' = posts + 1 /\ \E c \in Callers : SendsPost(c))
       /\ \A c \in Callers :
            (/\ ret.refresh = "failed"
             /\ Stale(conn, now)
             /\ Starts
             /\ call[c].kind = "none"
             /\ call'[c].kind = "_auth_header")
            => (SendsPost(c) /\ posts' = posts + 1)]_vars

(* Two calls of _auth_header have ended, each sent one token request, and  *)
(* no refresh succeeded.                                                   *)
C18_Witness ==
    /\ Quiescent
    /\ calls = 2
    /\ posts = 2
    /\ ret.kind = "_auth_header"
    /\ ret.refresh = "failed"
    /\ Stale(conn, now)
    /\ store[ConnKey].exists
    /\ conn.access_token = StrField(store[ConnKey].credential_data, "access_token")
    /\ conn.expires_at = GetInt(store[ConnKey].credential_data, "expires_at")
    /\ saves = 0


----------------------------------------------------------------------------
(* This step is a construction. *)
Constructs == \E ten \in TenantIds : Construct(ten)

(* C19: the store is read once, during construction, and written only by   *)
(* a token refresh that received HTTP 200; a construction writes nothing,  *)
(* and an operation of an API-key connector writes nothing and leaves      *)
(* api_key and configured as the constructor set them.                     *)
C19_StoreReadOnceWrittenByRefresh ==
    [][/\ Constructs => (conn'.reads = 1 /\ store' = store)
       /\ ~Constructs => conn'.reads = conn.reads
       /\ store' # store
            => /\ tool = HOME_ASSISTANT
               /\ \E c \in Callers, resp \in TokenResponses :
                    resp.status = 200 /\ RefreshResponse(c, resp)
       /\ (tool \in ApiKeyTools /\ ~Constructs)
            => /\ store' = store
               /\ conn'.api_key = conn.api_key
               /\ conn'.configured = conn.configured]_vars

(* An operation of a Home Assistant connector has ended after a refresh    *)
(* that wrote the store; the object has read the store once.               *)
C19_Witness ==
    /\ saves = 1
    /\ ret.kind = "operation"
    /\ ret.refresh = "ok"
    /\ ret.requests = 1
    /\ conn.reads = 1


----------------------------------------------------------------------------
(* C20: save/load round trip: once a call of an instance has completed a   *)
(* successful refresh, an instance constructed afterwards for the same     *)
(* (tool, credential_id, tenant_id) starts with the access_token,          *)
(* refresh_token and expires_at the refreshing instance holds.             *)
C20_RoundTrip ==
    [][\A ten \in TenantIds :
          (/\ ret.refresh = "ok"
           /\ conn.tenant_id = ten
           /\ Construct(ten))
          => /\ conn'.phase = "ok"
             /\ conn'.access_token = conn.access_token
             /\ conn'.refresh_token = conn.refresh_token
             /\ conn'.expires_at = conn.expires_at]_vars


----------------------------------------------------------------------------
(* The first of the values vs, in order, that is not blank, trimmed. *)
RECURSIVE FirstUsable(_)
FirstUsable(vs) ==
    IF vs = << >> THEN << >>
    ELSE IF NonBlank(Head(vs)) THEN Strip(Head(vs))
    ELSE FirstUsable(Tail(vs))

RecordAliases(data) == <<Get(data, "api_key"), Get(data, "key")>>

EnvAliases(t) == [i \in 1..Len(EnvNames(t)) |-> GetEnv(EnvNames(t)[i])]

(* C21: a secret is taken from the first alias that holds a usable value:  *)
(* an API-key record whose api_key or key is not blank configures the      *)
(* connector with the first of the two that is not blank, and in           *)
(* Permissive mode without a usable record Gemini is configured with the   *)
(* first of GEMINI_API_KEY and GOOGLE_API_KEY that is not blank, also when *)
(* the field of higher priority is present but whitespace-only.            *)
C21_FirstUsableAlias ==
    [][\A ten \in TenantIds :
          (tool \in ApiKeyTools /\ Construct(ten))
          => LET rec == store[Key(ten)]
             IN  /\ Usable(tool, rec)
                    => /\ conn'.phase = "ok"
                       /\ conn'.configured
                       /\ conn'.api_key = FirstUsable(RecordAliases(rec.credential_data))
                 /\ (tool = GEMINI /\ ~strict /\ ~Usable(tool, rec) /\ UsableEnv(tool))
                    => /\ conn'.phase = "ok"
                       /\ conn'.configured
                       /\ conn'.api_key = FirstUsable(EnvAliases(tool))]_vars


----------------------------------------------------------------------------
(* The token endpoint answered 200 with an access_token and the refresh    *)
(* routine ran to its end.                                                 *)
SuccessResponse(resp) ==
    /\ resp.status = 200
    /\ StrField(resp.body, "access_token") # << >>
    /\ ~RefreshRaises(resp.body)

(* A call of _auth_header entered on object c at time t sends a request to *)
(* the token endpoint.                                                     *)
WouldPost(c, t) == NeedsRefresh(c, t) /\ RefreshPosts(c)

(* C22: after a successful refresh (200 with an access_token) the token is *)
(* Fresh, so that a call of _auth_header that follows at the same instant  *)
(* sends no request to the token endpoint, for every success answer,       *)
(* including one that omits expires_in.                                    *)
C22_SuccessMakesFresh ==
    [][\A c \in Callers, resp \in TokenResponses :
          (SuccessResponse(resp) /\ RefreshResponse(c, resp))
          => (Fresh(conn', now') /\ ~WouldPost(conn', now'))]_vars


----------------------------------------------------------------------------
(* C23: static-token precedence: whenever the static token of the object   *)
(* is not empty, the header _auth_header returns (to its caller, or to the *)
(* operation that sends it) is "Bearer <static token>", whatever           *)
(* access_token and expires_at are and however a refresh made during the   *)
(* call ended.                                                             *)
C23_StaticTokenPrecedence ==
    [][\A c \in Callers :
          (Truthy(conn.token) /\ AuthHeaderReturn(c))
          => IF call[c].kind = "_auth_header"
             THEN ret'.header = Bearer(conn.token)
             ELSE call'[c].header = Bearer(conn.token)]_vars

(* A call of _auth_header on an object with a static token and a different *)
(* access_token refreshed the access_token and returned the static token.  *)
C23_Witness ==
    /\ ret.kind = "_auth_header"
    /\ ret.refresh = "ok"
    /\ Truthy(conn.token)
    /\ Truthy(conn.access_token)
    /\ conn.access_token # conn.token
    /\ ret.header = Bearer(conn.token)


----------------------------------------------------------------------------
(* The parts of the credential bundle that are not tokens stay as they are *)
(* in memory in this step; token_url changes only from unset to the        *)
(* default "{base_url}/auth/token".                                        *)
BundleKept ==
    /\ conn'.base_url = conn.base_url
    /\ conn'.token = conn.token
    /\ conn'.client_id = conn.client_id
    /\ conn'.client_secret = conn.client_secret
    /\ \/ conn'.token_url = conn.token_url
       \/ ~Truthy(conn.token_url) /\ conn'.token_url = conn.base_url \o <<"/auth/token">>

(* The record of the connector in the store after this step carries the    *)
(* non-token parts of the bundle that the object holds.                    *)
RecordCarriesBundle ==
    LET rec == store'[ConnKey]
    IN  /\ rec.exists
        /\ Get(rec.credential_data, "base_url") = conn.base_url
        /\ Get(rec.credential_data, "token") = conn.token
        /\ Get(rec.credential_data, "client_id") = conn.client_id
        /\ Get(rec.credential_data, "client_secret") = conn.client_secret
        /\ Get(rec.credential_data, "token_url") = conn'.token_url

(* The frame of a refresh in memory: the step that sends the request and   *)
(* the step that handles its answer keep the bundle.                       *)
C24_MemoryFrame ==
    \A c \in Callers :
        (SendsPost(c) \/ \E resp \in TokenResponses : RefreshResponse(c, resp))
        => BundleKept

(* C24: a token refresh, however it ends, leaves base_url, the static      *)
(* token, client_id and client_secret unchanged in memory and changes      *)
(* token_url only from unset to "{base_url}/auth/token"; on success it     *)
(* writes a record that carries those same values.                         *)
C24_RefreshKeepsBundle ==
    [][/\ C24_MemoryFrame
       /\ \A c \in Callers, resp \in TokenResponses :
             (SuccessResponse(resp) /\ RefreshResponse(c, resp))
             => (saves' = saves + 1 /\ RecordCarriesBundle)]_vars

----------------------------------------------------------------------------
(* The tenant a request acts for, and the keys a tenant owns. *)
Requester(request) ==
    IF request.tenant_id \in Tenants THEN request.tenant_id ELSE DEMO_TENANT_ID

NoTenant(request) == request.tenant_id \notin Tenants

OwnKeys(t) == {k \in api_keys : k.tenant_id = t}

(* C25: deletion of gateway API keys is tenant-scoped.  Over any sequence  *)
(* of create, delete and list requests by several tenants: a delete        *)
(* request without a tenant, DEMO_MODE being off, is answered 401 without  *)
(* a database call; a delete request for a key that is not in the          *)
(* requester's own list is answered 404; both leave the keys as they are;  *)
(* and a key leaves the table only through a delete handler that names it  *)
(* and works for the tenant that owns it, which then answers 200.          *)
C25_DeleteIsTenantScoped ==
    [][/\ \A h \in Handlers, request \in Requests, key_id \in KeyIds :
             DeleteApiKey(h, request, key_id)
             => /\ api_keys' = api_keys
                /\ IF NoTenant(request) /\ ~demo_mode
                   THEN /\ response'.status = 401
                        /\ ~response'.db
                        /\ pending' = pending
                   ELSE IF \A k \in OwnKeys(Requester(request)) : Str(k.id) # key_id
                   THEN /\ response'.status = 404
                        /\ pending' = pending
                   ELSE /\ pending'[h].pc = "delete"
                        /\ pending'[h].tenant_id = Requester(request)
                        /\ pending'[h].key_id = key_id
       /\ \A k \in api_keys :
             k \notin api_keys'
             => \E h \in Handlers :
                   /\ pending[h].pc = "delete"
                   /\ pending'[h].pc = "idle"
                   /\ k \in OwnKeys(pending[h].tenant_id)
                   /\ Str(k.id) = pending[h].key_id
                   /\ response'.op = "delete"
                   /\ response'.status = 200
       /\ (response'.op = "delete" /\ response'.status \in {401, 404} /\ response' # response)
             => api_keys' = api_keys]_vars

(* Tenant A asked to delete a key of tenant B, was answered 404, and the   *)
(* key is still there.                                                     *)
C25_Witness ==
    /\ response.op = "delete"
    /\ response.status = 404
    /\ response.tenant_id = <<"A">>
    /\ \E k \in api_keys : Str(k.id) = response.key_id /\ k.tenant_id = <<"B">>


====
